---- MODULE Spec2Model ----
(***************************************************************************)
(* Model of clean_reddit_jsons.py: extract_post_and_comments (the          *)
(* flattening of one parsed Reddit thread document) and process_folder     *)
(* (the loop that decodes every file of a folder, flattens it, stamps the  *)
(* records with the file name and collects them in one table).             *)
(*                                                                         *)
(* JSON / Python values are tagged records, so that the code's type tests  *)
(* (isinstance, truthiness, a method missing on a value) can be modelled:  *)
(*   [ty |-> "null"]                    None / null                        *)
(*   [ty |-> "nan"]                     a missing cell of a DataFrame      *)
(*   [ty |-> "int",  n |-> 3]           a number                           *)
(*   [ty |-> "str",  s |-> <<"a">>]     a string, as its characters        *)
(*   [ty |-> "list", items |-> <<..>>]  a list                             *)
(*   [ty |-> "dict", m |-> [k |-> v]]   a JSON object                      *)
(* The dicts the code BUILDS (post, comment_obj) are TLA+ functions from   *)
(* field names to such values; {} is the function with the empty domain.   *)
(***************************************************************************)
EXTENDS Integers, Sequences, FiniteSets, Bags, TLC

VARIABLES json_files, idx, raw_data, post, comments, exc,
          all_records, origin, printed, df, pc

vars == <<json_files, idx, raw_data, post, comments, exc,
          all_records, origin, printed, df, pc>>

(* ------------------------------ values -------------------------------- *)

Null == [ty |-> "null"]
NaN == [ty |-> "nan"]
Num(n) == [ty |-> "int", n |-> n]
Str(s) == [ty |-> "str", s |-> s]
List(xs) == [ty |-> "list", items |-> xs]
Dict(m) == [ty |-> "dict", m |-> m]

EmptyMap == [k \in {} |-> Null]
EmptyDict == Dict(EmptyMap)
EmptyStr == Str(<<>>)

\* m with m[k] = v: a key added to (or replaced in) a dict
With(m, k, v) == [x \in (DOMAIN m) \cup {k} |-> IF x = k THEN v ELSE m[x]]

IsDict(v) == v.ty = "dict"
IsStr(v) == v.ty = "str"
IsList(v) == v.ty = "list"

\* "k in d", for a dict d
Has(d, k) == k \in DOMAIN d.m

\* d.get(k, default), for a dict d
Get(d, k, default) == IF k \in DOMAIN d.m THEN d.m[k] ELSE default

\* Python truthiness: bool(v)
Truthy(v) ==
    CASE v.ty = "null" -> FALSE
      [] v.ty = "int" -> v.n # 0
      [] v.ty = "str" -> v.s # <<>>
      [] v.ty = "list" -> v.items # <<>>
      [] v.ty = "dict" -> DOMAIN v.m # {}

\* the string literals of the code
T1 == <<"t", "1">>
T3 == <<"t", "3">>
POST == <<"p", "o", "s", "t">>
COMMENT == <<"c", "o", "m", "m", "e", "n", "t">>
ORIGIN == <<"h", "t", "t", "p", "s", ":", "/", "/",
            "r", "e", "d", "d", "i", "t", ".", "c", "o", "m">>

\* the characters str.strip() removes, among those the model's strings use
Whitespace == {" ", "\n"}

RECURSIVE LStrip(_)
LStrip(s) ==
    IF s # <<>> /\ Head(s) \in Whitespace THEN LStrip(Tail(s)) ELSE s

RECURSIVE RStrip(_)
RStrip(s) ==
    IF s # <<>> /\ s[Len(s)] \in Whitespace
    THEN RStrip(SubSeq(s, 1, Len(s) - 1))
    ELSE s

\* str.strip()
Strip(s) == RStrip(LStrip(s))

(* ---------------------- extract_post_and_comments ---------------------- *)

\* an exception leaving the function: nothing is returned
Raise(e) == [exc |-> e]

\* the post dict of lines 17-29, for a dict post_data whose selftext, when
\* present, is a string
PostRecord(post_data) ==
    [type |-> Str(POST),
     id |-> Get(post_data, "id", Null),
     parent_id |-> Null,
     author |-> Get(post_data, "author", Null),
     subreddit |-> Get(post_data, "subreddit", Null),
     title |-> Get(post_data, "title", Null),
     body |-> Str(Strip(Get(post_data, "selftext", EmptyStr).s)),
     score |-> Get(post_data, "score", Null),
     num_comments |-> Get(post_data, "num_comments", Null),
     created_utc |-> Get(post_data, "created_utc", Null),
     url |-> Get(post_data, "url", Null)]

\* The element of a one-element set.  The({e : r \in {step}}) is e, with r
\* the outcome of `step`: the way a statement that follows a call is
\* written below, the call evaluated once.
The(S) == CHOOSE out \in S : TRUE

\* lines 16-29: children[0]["data"] (KeyError when absent), then the .get
\* calls (AttributeError on a post_data that is no dict) and .strip()
\* (AttributeError on a selftext that is no string)
BuildPost(child) ==
    IF ~Has(child, "data") THEN Raise("KeyError")
    ELSE LET post_data == child.m["data"] IN
         IF ~IsDict(post_data) THEN Raise("AttributeError")
         ELSE IF ~IsStr(Get(post_data, "selftext", EmptyStr))
         THEN Raise("AttributeError")
         ELSE [exc |-> "none", post |-> PostRecord(post_data)]

\* CommentBody without the trim
CommentBodyUntrimmed(data) == Get(data, "body", EmptyStr)

\* the value of the "body" entry, line 42
CommentBody(data) == Str(Strip(Get(data, "body", EmptyStr).s))

\* the value of the "url" entry, lines 46-47 (permalink a string or absent
\* or null in the documents of the model)
CommentUrl(data) ==
    IF Truthy(Get(data, "permalink", Null))
    THEN Str(ORIGIN \o Get(data, "permalink", Null).s)
    ELSE Null

\* comment_obj, lines 35-48, for a dict data whose body, when present, is a
\* string
CommentRecord(data) ==
    [type |-> Str(COMMENT),
     id |-> Get(data, "id", Null),
     parent_id |-> Get(data, "parent_id", Null),
     author |-> Get(data, "author", Null),
     subreddit |-> Get(data, "subreddit", Null),
     title |-> Null,
     body |-> CommentBody(data),
     score |-> Get(data, "score", Null),
     num_comments |-> Null,
     created_utc |-> Get(data, "created_utc", Null),
     url |-> CommentUrl(data)]

\* what "for r in v" iterates over: the items of a list, the characters of
\* a string; TypeError on null or a number
IterItems(v) ==
    CASE v.ty = "list" -> [exc |-> "none", items |-> v.items]
      [] v.ty = "str" ->
            [exc |-> "none", items |-> [i \in 1..Len(v.s) |-> Str(<<v.s[i]>>)]]
      [] OTHER -> Raise("TypeError")

RECURSIVE parse_comment(_, _)
RECURSIVE ReplyLoop(_, _, _)
RECURSIVE ReplyLoopPreOrder(_, _, _)

\* ReplyLoop appending each reply before the replies to it
ReplyLoopPreOrder(items, i, acc) ==
    IF i > Len(items) THEN [exc |-> "none", comments |-> acc]
    ELSE LET r == items[i] IN
         IF ~IsDict(r) THEN Raise("AttributeError")
         ELSE IF Get(r, "kind", Null) = Str(T1)
         THEN The({IF res.exc # "none" THEN Raise(res.exc)
                   ELSE The({ReplyLoopPreOrder(items, i + 1, sub.comments) :
                                sub \in {parse_comment(r, Append(acc, res.obj))}}) :
                      res \in {parse_comment(r, acc)}})
         ELSE ReplyLoopPreOrder(items, i + 1, acc)

\* lines 53-55: for r in reply_children, from its i-th item on; acc is the
\* list `comments` on entry.  r.get on an item that is no dict is an
\* AttributeError; what parse_comment(r) returns is appended after the call.
ReplyLoop(items, i, acc) ==
    IF i > Len(items) THEN [exc |-> "none", comments |-> acc]
    ELSE LET r == items[i] IN
         IF ~IsDict(r) THEN Raise("AttributeError")
         ELSE IF Get(r, "kind", Null) = Str(T1)
         THEN The({IF res.exc # "none" THEN Raise(res.exc)
                   ELSE ReplyLoop(items, i + 1, Append(res.comments, res.obj)) :
                      res \in {parse_comment(r, acc)}})
         ELSE ReplyLoop(items, i + 1, acc)

\* lines 33-56: parse_comment(comment); acc is the list `comments` on
\* entry, handed back as `comments` with what the call appended to it.  The
\* replies are appended inside the call; comment_obj itself is returned,
\* and appended by the caller afterwards.
parse_comment(comment, acc) ==
    LET data == Get(comment, "data", EmptyDict) IN
    IF ~IsDict(data) THEN Raise("AttributeError")
    ELSE IF ~IsStr(Get(data, "body", EmptyStr)) THEN Raise("AttributeError")
    ELSE LET comment_obj == CommentRecord(data)
             replies == Get(data, "replies", Null)
         IN  IF ~IsDict(replies)
             THEN [exc |-> "none", comments |-> acc, obj |-> comment_obj]
             ELSE LET rdata == Get(replies, "data", EmptyDict) IN
                  IF ~IsDict(rdata) THEN Raise("AttributeError")
                  ELSE The({IF it.exc # "none" THEN Raise(it.exc)
                            ELSE The({IF res.exc # "none" THEN Raise(res.exc)
                                      ELSE [exc |-> "none",
                                            comments |-> res.comments,
                                            obj |-> comment_obj] :
                                         res \in {ReplyLoop(it.items, 1, acc)}}) :
                               it \in {IterItems(Get(rdata, "children", List(<<>>)))}})

\* ChildLoop looking at the first child only
ChildLoopFirstOnly(items, i, acc) ==
    LET c == items[1] IN
    IF ~IsDict(c) THEN Raise("AttributeError")
    ELSE IF Get(c, "kind", Null) = Str(T1)
    THEN The({IF res.exc # "none" THEN Raise(res.exc)
              ELSE [exc |-> "none", comments |-> Append(res.comments, res.obj)] :
                 res \in {parse_comment(c, acc)}})
    ELSE [exc |-> "none", comments |-> acc]

RECURSIVE ChildLoop(_, _, _)
\* lines 58-60: for c in children, from its i-th item on
ChildLoop(items, i, acc) ==
    IF i > Len(items) THEN [exc |-> "none", comments |-> acc]
    ELSE LET c == items[i] IN
         IF ~IsDict(c) THEN Raise("AttributeError")
         ELSE IF Get(c, "kind", Null) = Str(T1)
         THEN The({IF res.exc # "none" THEN Raise(res.exc)
                   ELSE ChildLoop(items, i + 1, Append(res.comments, res.obj)) :
                      res \in {parse_comment(c, acc)}})
         ELSE ChildLoop(items, i + 1, acc)

\* children[0]["kind"], lines 15 and 32, for a truthy children: KeyError on
\* a first child without "kind", TypeError on a first child that is no
\* dict, or on children that cannot be indexed by 0
FirstKind(children) ==
    CASE children.ty = "list" ->
            LET c0 == children.items[1] IN
            IF ~IsDict(c0) THEN Raise("TypeError")
            ELSE IF ~Has(c0, "kind") THEN Raise("KeyError")
            ELSE [exc |-> "none", kind |-> c0.m["kind"]]
      [] children.ty = "dict" -> Raise("KeyError")
      [] OTHER -> Raise("TypeError")

\* lines 16-29 and 58-60: the two branches on the kind k of the first child;
\* p and acc are `post` and `comments` on entry
Branches(k, children, p, acc) ==
    IF k = Str(T3)
    THEN The({IF b.exc # "none" THEN Raise(b.exc)
              ELSE [exc |-> "none", post |-> b.post, comments |-> acc] :
                 b \in {BuildPost(children.items[1])}})
    ELSE IF k = Str(T1)
    THEN The({IF res.exc # "none" THEN Raise(res.exc)
              ELSE [exc |-> "none", post |-> p, comments |-> res.comments] :
                 res \in {ChildLoop(children.items, 1, acc)}})
    ELSE [exc |-> "none", post |-> p, comments |-> acc]

\* Listing keeping the post of an earlier listing
ListingFirstWins(listing, p, acc) ==
    IF ~IsDict(listing) \/ ~Has(listing, "data")
    THEN [exc |-> "none", post |-> p, comments |-> acc]
    ELSE IF ~IsDict(listing.m["data"]) THEN Raise("AttributeError")
    ELSE LET children == Get(listing.m["data"], "children", List(<<>>)) IN
         IF ~Truthy(children)
         THEN [exc |-> "none", post |-> p, comments |-> acc]
         ELSE The({IF k.exc # "none" THEN Raise(k.exc)
                   ELSE IF k.kind = Str(T3)
                   THEN The({IF b.exc # "none" THEN Raise(b.exc)
                             ELSE [exc |-> "none",
                                   post |-> IF DOMAIN p # {} THEN p ELSE b.post,
                                   comments |-> acc] :
                                b \in {BuildPost(children.items[1])}})
                   ELSE Branches(k.kind, children, p, acc) :
                      k \in {FirstKind(children)}})

\* lines 10-60, the body of "for listing in raw_data" for one listing; p
\* and acc are `post` and `comments` on entry
Listing(listing, p, acc) ==
    IF ~IsDict(listing) \/ ~Has(listing, "data")
    THEN [exc |-> "none", post |-> p, comments |-> acc]
    ELSE IF ~IsDict(listing.m["data"]) THEN Raise("AttributeError")
    ELSE LET children == Get(listing.m["data"], "children", List(<<>>)) IN
         IF ~Truthy(children)
         THEN [exc |-> "none", post |-> p, comments |-> acc]
         ELSE The({IF k.exc # "none" THEN Raise(k.exc)
                   ELSE Branches(k.kind, children, p, acc) :
                      k \in {FirstKind(children)}})

RECURSIVE ListingLoop(_, _, _, _)
\* line 9: for listing in raw_data, from its i-th item on
ListingLoop(items, i, p, acc) ==
    IF i > Len(items) THEN [exc |-> "none", post |-> p, comments |-> acc]
    ELSE The({IF res.exc # "none" THEN Raise(res.exc)
              ELSE ListingLoop(items, i + 1, res.post, res.comments) :
                 res \in {Listing(items[i], p, acc)}})

\* post = None
InitialPostNone == Null

\* post = {}, line 6
InitialPost == EmptyMap

\* lines 5-62.  [exc |-> "none", post, comments] is "return post, comments".
\* Iterating over a dict gives its keys, strings, which line 10 skips.
extract_post_and_comments(raw) ==
    IF raw.ty = "dict"
    THEN [exc |-> "none", post |-> InitialPost, comments |-> <<>>]
    ELSE The({IF it.exc # "none" THEN Raise(it.exc)
              ELSE ListingLoop(it.items, 1, InitialPost, <<>>) :
                 it \in {IterItems(raw)}})

(* ------------------------- the documents tried ------------------------- *)

\* the deepest nesting of replies in the documents tried
MaxDepth == 3
\* the most listings in the documents that vary the kinds of listing
MaxListings == 2
\* the most files in the folder
MaxFiles == 3

Digits == <<"1", "2", "3", "4", "5", "6", "7", "8", "9">>

\* Every thing is given the id that spells its place in the document: the
\* id of a thing extends the id of the comment it replies to by one
\* character, so ids are unique in a document (as Reddit's are) and tell
\* which comment is in whose replies subtree.
Sub(path, i) == Append(path, Digits[i])

\* {"data": {"children": [...]}}: a listing, and the container shape of
\* "replies"
Container(kids) == Dict([data |-> Dict([children |-> List(kids)])])

Thing(kind, data) == Dict([kind |-> Str(kind), data |-> Dict(data)])

\* a comment with every field, its body to be trimmed, and no replies key
FullComment(path) ==
    Thing(T1, [id |-> Str(path), parent_id |-> Str(<<"t", "1", "_">> \o path),
               author |-> Str(<<"u">>), subreddit |-> Str(<<"a", "2">>),
               body |-> Str(<<" ", "b", " ", "\n">>), score |-> Num(3),
               created_utc |-> Num(7), permalink |-> Str(<<"/", "r">>)])

\* a comment without body or permalink, its replies the empty-string
\* sentinel Reddit sends for "no replies"
BareComment(path) == Thing(T1, [id |-> Str(path), replies |-> EmptyStr])

\* a "load more comments" stub
MoreThing(path) == Thing(<<"m", "o", "r", "e">>, [id |-> Str(path)])

\* a stub that, against the format, carries a comment in replies
MoreWithReply(path) ==
    Thing(<<"m", "o", "r", "e">>,
          [id |-> Str(path), replies |-> Container(<<FullComment(Sub(path, 1))>>)])

\* a comment with the replies `kids`
Reply(path, kids) ==
    Thing(T1, [id |-> Str(path), body |-> Str(<<"r", " ">>),
               replies |-> Container(kids)])

RECURSIVE ThingsAt(_, _)
\* the well-formed things of nesting depth at most d at `path`
ThingsAt(d, path) ==
    {FullComment(path), BareComment(path), MoreThing(path), MoreWithReply(path)}
    \cup (IF d = 0 THEN {}
          ELSE {Reply(path, <<>>)}
               \cup {Reply(path, <<x>>) : x \in ThingsAt(d - 1, Sub(path, 1))}
               \cup {Reply(path, <<MoreThing(Sub(path, 1)), x>>) :
                        x \in ThingsAt(d - 1, Sub(path, 2))}
               \cup {Reply(path, <<x, FullComment(Sub(path, 2))>>) :
                        x \in ThingsAt(d - 1, Sub(path, 1))})

\* the listings of well-formed things at `path`
TreeListingsAt(path) ==
    {Container(<<x>>) : x \in ThingsAt(MaxDepth, Sub(path, 1))}
    \cup {Container(<<x, MoreThing(Sub(path, 2))>>) :
             x \in ThingsAt(MaxDepth, Sub(path, 1))}
    \cup {Container(<<x, BareComment(Sub(path, 2))>>) :
             x \in ThingsAt(MaxDepth, Sub(path, 1))}
    \cup {Container(<<BareComment(Sub(path, 1)), x>>) :
             x \in ThingsAt(MaxDepth, Sub(path, 2))}

\* a post with every field
FullPost(path) ==
    Thing(T3, [id |-> Str(path), author |-> Str(<<"u">>),
               subreddit |-> Str(<<"a", "2">>), title |-> Str(<<"T">>),
               selftext |-> Str(<<"\n", "s", " ">>), score |-> Num(5),
               num_comments |-> Num(2), created_utc |-> Num(6),
               url |-> Str(<<"/", "p">>)])

\* a link post: no selftext
LinkPost(path) == Thing(T3, [id |-> Str(path), title |-> Str(<<"L">>)])

\* the listings of the documents that vary the kinds of listing, well-formed
\* and malformed
BasicListingsAt(path) ==
    {\* a post listing
     Container(<<FullPost(Sub(path, 1))>>),
     Container(<<LinkPost(Sub(path, 1)), BareComment(Sub(path, 2))>>),
     \* a comment listing
     Container(<<FullComment(Sub(path, 1)),
                 Reply(Sub(path, 2), <<BareComment(Sub(Sub(path, 2), 1))>>)>>),
     \* a listing of stubs
     Container(<<MoreThing(Sub(path, 1)), FullComment(Sub(path, 2))>>),
     \* no children
     Container(<<>>),
     Dict([data |-> EmptyDict]),
     Dict([data |-> Dict([children |-> Null])]),
     \* no container
     Str(<<"x">>),
     Dict([kind |-> Str(<<"L">>)]),
     \* data that is no dict
     Dict([data |-> Null]),
     \* a first child that is no dict, or lacks kind
     Container(<<Str(<<"x">>)>>),
     Container(<<Dict([data |-> EmptyDict])>>),
     \* a post without data, or with a null selftext
     Container(<<Dict([kind |-> Str(T3)])>>),
     Container(<<Thing(T3, [id |-> Str(Sub(path, 1)), selftext |-> Null])>>),
     \* comments without data, with null data, with a null body
     Container(<<Dict([kind |-> Str(T1)]), Dict([kind |-> Str(T1)])>>),
     Container(<<Dict([kind |-> Str(T1), data |-> Null])>>),
     Container(<<Thing(T1, [id |-> Str(Sub(path, 1)), body |-> Null])>>),
     \* a later child that is no dict
     Container(<<BareComment(Sub(path, 1)), Null>>),
     \* replies whose data is no dict, whose children are null, or hold a
     \* child that is no dict
     Container(<<Thing(T1, [id |-> Str(Sub(path, 1)),
                            replies |-> Dict([data |-> Null])])>>),
     Container(<<Thing(T1, [id |-> Str(Sub(path, 1)),
                            replies |-> Dict([data |-> Dict([children |-> Null])])])>>),
     Container(<<Thing(T1, [id |-> Str(Sub(path, 1)),
                            replies |-> Container(<<Str(<<"x">>)>>)])>>),
     \* replies that are a dict without data
     Container(<<Thing(T1, [id |-> Str(Sub(path, 1)), replies |-> EmptyDict])>>)}

RECURSIVE LayoutsFrom(_, _)
\* the sequences of n basic listings, the first of them the i-th listing
LayoutsFrom(i, n) ==
    IF n = 0 THEN {<<>>}
    ELSE {<<l>> \o rest : l \in BasicListingsAt(<<Digits[i]>>),
                          rest \in LayoutsFrom(i + 1, n - 1)}

\* the parsed documents tried: every layout of up to MaxListings basic
\* listings, and every tree listing alone and after a post listing
Docs ==
    {List(ls) : ls \in UNION {LayoutsFrom(1, n) : n \in 0..MaxListings}}
    \cup {List(<<cl>>) : cl \in TreeListingsAt(<<"1">>)}
    \cup {List(<<Container(<<FullPost(<<"1", "1">>)>>), cl>>) :
             cl \in TreeListingsAt(<<"2">>)}

(* ------------------ a call of extract_post_and_comments ---------------- *)

Idle ==
    /\ json_files = <<>>
    /\ idx = 0
    /\ all_records = <<>>
    /\ origin = <<>>
    /\ printed = <<>>
    /\ df = Null

InitExtract ==
    /\ raw_data \in Docs
    /\ post = Null
    /\ comments = <<>>
    /\ exc = "none"
    /\ pc = "call"
    /\ Idle

\* the call returns: "return post, comments", line 62
CallReturns ==
    /\ pc = "call"
    /\ \E res \in {extract_post_and_comments(raw_data)} :
       /\ res.exc = "none"
       /\ post' = res.post
       /\ comments' = res.comments
    /\ pc' = "returned"
    /\ UNCHANGED <<json_files, idx, raw_data, exc, all_records, origin, printed, df>>

\* the call raises
CallRaises ==
    /\ pc = "call"
    /\ \E res \in {extract_post_and_comments(raw_data)} :
       /\ res.exc # "none"
       /\ exc' = res.exc
    /\ pc' = "raised"
    /\ UNCHANGED <<json_files, idx, raw_data, post, comments,
                   all_records, origin, printed, df>>

NextExtract == CallReturns \/ CallRaises

SpecExtract == InitExtract /\ [][NextExtract]_vars

(* ---------------------------- process_folder --------------------------- *)

\* file.name of the i-th file the glob lists
FileName(i) == <<"f", Digits[i], ".", "j", "s", "o", "n">>

\* what a file may hold: bytes json.load rejects, or a JSON value
NotJson == [valid |-> FALSE]
Json(v) == [valid |-> TRUE, value |-> v]

\* a thread: the post listing, then the comment listing with a nested reply
ThreadDoc ==
    List(<<Container(<<FullPost(<<"1", "1">>)>>),
           Container(<<FullComment(<<"2", "1">>),
                       Reply(<<"2", "2">>, <<BareComment(<<"2", "2", "1">>)>>)>>)>>)

\* a capture of a comment subtree only: no post listing
SubtreeDoc ==
    List(<<Container(<<Reply(<<"1", "1">>, <<FullComment(<<"1", "1", "1">>)>>)>>)>>)

\* a post without comments
PostOnlyDoc == List(<<Container(<<LinkPost(<<"1", "1">>)>>)>>)

\* a thread whose second comment has a null body: the post and the first
\* comment are built before the call fails
BrokenDoc ==
    List(<<Container(<<FullPost(<<"1", "1">>)>>),
           Container(<<FullComment(<<"2", "1">>),
                       Thing(T1, [id |-> Str(<<"2", "2">>), body |-> Null])>>)>>)

\* a file that holds one listing object, not a list of listings
ListingObject == Container(<<FullPost(<<"1", "1">>)>>)

\* the files tried
FileContents ==
    {NotJson, Json(Null), Json(List(<<>>)), Json(ListingObject), Json(ThreadDoc),
     Json(SubtreeDoc), Json(PostOnlyDoc), Json(BrokenDoc)}

RECURSIVE Folders(_)
\* the folders of n files
Folders(n) ==
    IF n = 0 THEN {<<>>}
    ELSE {Append(fs, [name |-> FileName(n), content |-> c]) :
             fs \in Folders(n - 1), c \in FileContents}

Init ==
    /\ json_files \in UNION {Folders(n) : n \in 0..MaxFiles}
    /\ idx = 0
    /\ raw_data = Null
    /\ post = Null
    /\ comments = <<>>
    /\ exc = "none"
    /\ all_records = <<>>
    /\ origin = <<>>
    /\ printed = <<>>
    /\ df = Null
    /\ pc = "glob"

\* lines 70-73: no file, the function returns None
GlobNone ==
    /\ pc = "glob"
    /\ json_files = <<>>
    /\ printed' = Append(printed, [msg |-> "no files"])
    /\ pc' = "done"
    /\ UNCHANGED <<json_files, idx, raw_data, post, comments, exc,
                   all_records, origin, df>>

\* lines 70-77
GlobFound ==
    /\ pc = "glob"
    /\ json_files # <<>>
    /\ printed' = Append(printed, [msg |-> "found", n |-> Len(json_files)])
    /\ idx' = 1
    /\ pc' = "load"
    /\ UNCHANGED <<json_files, raw_data, post, comments, exc,
                   all_records, origin, df>>

\* Except without the handler: the exception ends the run
ExceptAborts(e) ==
    /\ exc' = e
    /\ printed' = Append(printed, [msg |-> "error", file |-> json_files[idx].name,
                                   exc |-> e])
    /\ idx' = idx
    /\ pc' = "done"

\* lines 90-91: the handler of an exception raised in the try block of the
\* file at idx; the loop goes on to the next file
Except(e) ==
    /\ exc' = e
    /\ printed' = Append(printed, [msg |-> "error", file |-> json_files[idx].name,
                                   exc |-> e])
    /\ idx' = idx + 1
    /\ pc' = "load"

\* lines 79-80: json.load returns
LoadOk ==
    /\ pc = "load"
    /\ idx <= Len(json_files)
    /\ json_files[idx].content.valid
    /\ raw_data' = json_files[idx].content.value
    /\ pc' = "extract"
    /\ UNCHANGED <<json_files, idx, post, comments, exc,
                   all_records, origin, printed, df>>

\* lines 79-80, 90-91: json.load raises
LoadFails ==
    /\ pc = "load"
    /\ idx <= Len(json_files)
    /\ ~json_files[idx].content.valid
    /\ Except("JSONDecodeError")
    /\ UNCHANGED <<json_files, raw_data, post, comments, all_records, origin, df>>

\* line 82: the call returns
ExtractReturns ==
    /\ pc = "extract"
    /\ \E res \in {extract_post_and_comments(raw_data)} :
       /\ res.exc = "none"
       /\ post' = res.post
       /\ comments' = res.comments
    /\ pc' = "tag"
    /\ UNCHANGED <<json_files, idx, raw_data, exc, all_records, origin, printed, df>>

\* lines 82, 90-91: the call raises
ExtractRaises ==
    /\ pc = "extract"
    /\ \E res \in {extract_post_and_comments(raw_data)} :
       /\ res.exc # "none"
       /\ Except(res.exc)
    /\ UNCHANGED <<json_files, raw_data, post, comments, all_records, origin, df>>

\* Stamp with the name of the first file of the folder
StampFirstFile(item, name) == With(item, "source_file", Str(json_files[1].name))

\* line 86: item["source_file"] = file.name
Stamp(item, name) == With(item, "source_file", Str(name))

\* [post] + comments, lines 85 and 88
Items(p, cs) == <<p>> \o cs

\* lines 85-89: every item of [post] + comments is stamped in place, then
\* the list is appended to all_records.  origin records, for each row, the
\* file whose iteration appended it.
TagAndExtend ==
    /\ pc = "tag"
    /\ LET name == json_files[idx].name
           items == Items(post, comments)
           tagged == [i \in 1..Len(items) |-> Stamp(items[i], name)]
       IN /\ post' = Stamp(post, name)
          /\ comments' = [i \in 1..Len(comments) |-> Stamp(comments[i], name)]
          /\ all_records' = all_records \o tagged
          /\ origin' = origin \o [i \in 1..Len(items) |-> idx]
          /\ printed' = Append(printed, [msg |-> "processed", file |-> name,
                                         n |-> Len(comments)])
    /\ idx' = idx + 1
    /\ pc' = "load"
    /\ UNCHANGED <<json_files, raw_data, exc, df>>

\* pd.DataFrame(all_records), line 93: one row per record, one column per
\* key of any record, NaN where a record lacks the key
DataFrame(records) ==
    LET columns == UNION {DOMAIN records[i] : i \in 1..Len(records)} IN
    [columns |-> columns,
     rows |-> [i \in 1..Len(records) |->
                  [c \in columns |-> IF c \in DOMAIN records[i]
                                     THEN records[i][c] ELSE NaN]]]

\* lines 93-99: after the last file
Finish ==
    /\ pc = "load"
    /\ idx > Len(json_files)
    /\ df' = DataFrame(all_records)
    /\ printed' = Append(printed, [msg |-> "saved"])
    /\ pc' = "done"
    /\ UNCHANGED <<json_files, idx, raw_data, post, comments, exc,
                   all_records, origin>>

Next ==
    \/ GlobNone
    \/ GlobFound
    \/ LoadOk
    \/ LoadFails
    \/ ExtractReturns
    \/ ExtractRaises
    \/ TagAndExtend
    \/ Finish

Spec == Init /\ [][Next]_vars

(* ----------------- the shape of a document, read directly -------------- *)

Returned == pc = "returned"

\* a listing of the container shape with at least one child
IsContainer(l) ==
    /\ IsDict(l) /\ Has(l, "data")
    /\ IsDict(l.m["data"]) /\ Has(l.m["data"], "children")
    /\ IsList(l.m["data"].m["children"])
    /\ l.m["data"].m["children"].items # <<>>

ChildrenOf(l) == l.m["data"].m["children"].items

HasKind(t, kind) == IsDict(t) /\ Has(t, "kind") /\ t.m["kind"] = Str(kind)

\* a post listing: its first child has kind t3; a comment listing: kind t1
IsPostListing(l) == IsContainer(l) /\ HasKind(ChildrenOf(l)[1], T3)
IsCommentListing(l) == IsContainer(l) /\ HasKind(ChildrenOf(l)[1], T1)

\* the places of the post listings of a document
PostListings(doc) == {i \in 1..Len(doc.items) : IsPostListing(doc.items[i])}

Max(S) == CHOOSE x \in S : \A y \in S : y <= x
Min(S) == CHOOSE x \in S : \A y \in S : x <= y

\* the payload of the post of the i-th listing
PostDataOf(doc, i) == ChildrenOf(doc.items[i])[1].m["data"]

\* the children held by a container-shaped replies field, none otherwise
ReplyChildren(t) ==
    IF /\ IsDict(t) /\ Has(t, "data") /\ IsDict(t.m["data"])
       /\ Has(t.m["data"], "replies")
       /\ IsContainer(t.m["data"].m["replies"])
    THEN ChildrenOf(t.m["data"].m["replies"])
    ELSE <<>>

\* s is a proper prefix of t.  The ids of the documents tried spell places,
\* so this says: the thing with id t lies in the replies subtree of the
\* thing with id s.
ProperPrefix(s, t) == Len(s) < Len(t) /\ SubSeq(t, 1, Len(s)) = s

\* comment record j was produced from the replies subtree of the comment
\* that record i was produced from
InSubtreeOf(j, i) ==
    /\ IsStr(comments[i]["id"]) /\ IsStr(comments[j]["id"])
    /\ ProperPrefix(comments[i]["id"].s, comments[j]["id"].s)

(* C1, as it stands: in the returned comment sequence, the record of a     *)
(* comment comes strictly before every record produced from its replies    *)
(* subtree (pre-order).                                                    *)
C1_ParentBeforeReplies ==
    Returned =>
        \A i, j \in 1..Len(comments) : InSubtreeOf(j, i) => i < j

(* C1, amended: in the returned comment sequence, the record of a comment  *)
(* comes strictly AFTER every record produced from its replies subtree     *)
(* (post-order: parse_comment appends the replies, then returns the        *)
(* comment to the caller, which appends it).                               *)
C1_ParentAfterReplies ==
    Returned =>
        \A i, j \in 1..Len(comments) : InSubtreeOf(j, i) => j < i

\* a comment, a reply to it and a reply to that reply were all returned
C1_Witness ==
    /\ Returned
    /\ \E i, j, k \in 1..Len(comments) : InSubtreeOf(j, i) /\ InSubtreeOf(k, j)

(* C2, as it stands: with several post listings in the document, the       *)
(* returned post is the one built from the FIRST post listing.             *)
C2_FirstPostWins ==
    (Returned /\ PostListings(raw_data) # {}) =>
        post = PostRecord(PostDataOf(raw_data, Min(PostListings(raw_data))))

(* C2, amended: at most one post record is returned, and with several post *)
(* listings in the document it is the one built from the LAST post listing *)
(* in input order: every post listing overwrites `post`.                   *)
C2_LastPostWins ==
    Returned =>
        /\ DOMAIN post # {} => post["type"] = Str(POST)
        /\ PostListings(raw_data) # {} =>
              post = PostRecord(PostDataOf(raw_data, Max(PostListings(raw_data))))
        /\ \A c \in 1..Len(comments) : comments[c]["type"] = Str(COMMENT)

\* two post listings with different posts were read
C2_Witness ==
    /\ Returned
    /\ Cardinality(PostListings(raw_data)) >= 2
    /\ PostRecord(PostDataOf(raw_data, Min(PostListings(raw_data))))
          # PostRecord(PostDataOf(raw_data, Max(PostListings(raw_data))))

(* C4: for every input that is a sequence of listings, the call returns    *)
(* normally, whatever is malformed in it.                                  *)
C4_NeverRaises == pc # "raised"

(* C5, as it stands: without a post listing the returned post is null.     *)
C5_NoPostIsNull ==
    (Returned /\ PostListings(raw_data) = {}) => post = Null

(* C5, amended: without a post listing the returned post is the empty dict *)
(* {} (no field at all, so no record of any kind, but not null), returned  *)
(* together with the comment sequence; the empty input yields ({}, []).    *)
C5_NoPostIsEmptyDict ==
    (Returned /\ PostListings(raw_data) = {}) =>
        /\ DOMAIN post = {}
        /\ post # Null
        /\ raw_data.items = <<>> => comments = <<>>

\* a document without post listing returned comments
C5_Witness ==
    /\ Returned
    /\ PostListings(raw_data) = {}
    /\ comments # <<>>

RECURSIVE AllDicts(_)
\* every JSON object anywhere in a value
AllDicts(v) ==
    CASE v.ty = "dict" -> {v} \cup UNION {AllDicts(v.m[k]) : k \in DOMAIN v.m}
      [] v.ty = "list" -> UNION {AllDicts(v.items[i]) : i \in 1..Len(v.items)}
      [] OTHER -> {}

\* the payloads in the document that carry the id of comment record c
SourcesOf(c) ==
    {d \in AllDicts(raw_data) : Has(d, "id") /\ d.m["id"] = c["id"]}

Trimmed(s) == s = <<>> \/ (s[1] \notin Whitespace /\ s[Len(s)] \notin Whitespace)

(* C8: every returned comment record has a body that is a string without   *)
(* leading or trailing whitespace, never null; it is the empty string when *)
(* the source payload has no body field.                                   *)
C8_CommentBody ==
    Returned =>
        \A i \in 1..Len(comments) :
            LET c == comments[i] IN
            /\ "body" \in DOMAIN c
            /\ IsStr(c["body"])
            /\ Trimmed(c["body"].s)
            /\ \A d \in SourcesOf(c) : ~Has(d, "body") => c["body"] = EmptyStr

\* a comment without body was returned with "", and one whose body had
\* whitespace around it was returned trimmed
C8_Witness ==
    /\ Returned
    /\ \E i \in 1..Len(comments) :
          /\ comments[i]["body"] = EmptyStr
          /\ \E d \in SourcesOf(comments[i]) : ~Has(d, "body")
    /\ \E i \in 1..Len(comments) :
          \E d \in SourcesOf(comments[i]) :
              /\ Has(d, "body") /\ IsStr(d.m["body"])
              /\ ~Trimmed(d.m["body"].s)
              /\ comments[i]["body"].s # <<>>

RECURSIVE BagOfSeq(_)
\* the records of a sequence, each as often as it occurs
BagOfSeq(seq) ==
    IF seq = <<>> THEN EmptyBag
    ELSE SetToBag({Head(seq)}) (+) BagOfSeq(Tail(seq))

RECURSIVE SubtreeBag(_)
RECURSIVE ForestBag(_)
\* one record for the t1 thing t and for every t1 thing below it through
\* container-shaped replies whose links are all t1
SubtreeBag(t) ==
    SetToBag({CommentRecord(Get(t, "data", EmptyDict))})
        (+) ForestBag(ReplyChildren(t))

\* the same for every t1 thing of a sequence of things
ForestBag(things) ==
    IF things = <<>> THEN EmptyBag
    ELSE (IF HasKind(Head(things), T1) THEN SubtreeBag(Head(things)) ELSE EmptyBag)
            (+) ForestBag(Tail(things))

RECURSIVE ListingsBag(_)
\* the same for the children of every comment listing of a sequence
ListingsBag(ls) ==
    IF ls = <<>> THEN EmptyBag
    ELSE (IF IsCommentListing(Head(ls)) THEN ForestBag(ChildrenOf(Head(ls)))
          ELSE EmptyBag)
            (+) ListingsBag(Tail(ls))

(* C10: the returned comment sequence holds exactly one record for each t1 *)
(* thing that is a child of a comment listing, or is reached from such a   *)
(* child through container-shaped replies whose links are all t1, at any   *)
(* depth and in every comment listing; none for another thing, none twice. *)
C10_Completeness ==
    Returned => BagOfSeq(comments) = ListingsBag(raw_data.items)

\* a comment listing with a later t1 child, three levels of replies and a
\* thing of another kind that was left out
C10_Witness ==
    /\ Returned
    /\ \E i \in 1..Len(comments) :
          IsStr(comments[i]["id"]) /\ Len(comments[i]["id"].s) >= 4
    /\ \E i \in 1..Len(comments) :
          IsStr(comments[i]["id"]) /\ comments[i]["id"].s \in {<<"1", "2">>, <<"2", "2">>}
    /\ \E d \in AllDicts(raw_data) :
          /\ Has(d, "id")
          /\ \A i \in 1..Len(comments) : comments[i]["id"] # d.m["id"]

(* -------------------- the folder, read directly ------------------------ *)

\* what the i-th file comes to: "failed" when it does not decode or the
\* normalizer raises on it, and what the normalizer returns otherwise
Outcome(i) ==
    IF ~json_files[i].content.valid THEN Raise("JSONDecodeError")
    ELSE extract_post_and_comments(json_files[i].content.value)

Fails(i) == Outcome(i).exc # "none"

\* r with the name of the i-th file as its source_file
Named(r, i) == With(r, "source_file", Str(json_files[i].name))

\* the rows of the i-th file: none when it fails, else the post the
\* normalizer returned and then its comments, each named
RowsOf(i) ==
    IF Fails(i) THEN <<>>
    ELSE LET o == Outcome(i) IN
         <<Named(o.post, i)>> \o [k \in 1..Len(o.comments) |-> Named(o.comments[k], i)]

RECURSIVE RowsUpTo(_)
RowsUpTo(n) == IF n <= 0 THEN <<>> ELSE RowsUpTo(n - 1) \o RowsOf(n)

\* the files named in the messages of kind msg, in the order printed
RECURSIVE Reported(_, _)
Reported(log, msg) ==
    IF log = <<>> THEN <<>>
    ELSE (IF Head(log).msg = msg THEN <<Head(log).file>> ELSE <<>>)
            \o Reported(Tail(log), msg)

RECURSIVE NamesUpTo(_, _)
\* the names of the files up to the n-th that fail (or, do not fail)
NamesUpTo(n, failing) ==
    IF n <= 0 THEN <<>>
    ELSE NamesUpTo(n - 1, failing)
            \o (IF Fails(n) = failing THEN <<json_files[n].name>> ELSE <<>>)

SchemaFields ==
    {"id", "parent_id", "author", "subreddit", "title", "body", "score",
     "num_comments", "created_utc", "url"}

(* C6: every row of the table has exactly one kind, post or comment, and   *)
(* every schema field, null where it does not apply: title and             *)
(* num_comments for a comment, parent_id for a post.                       *)
C6_UniformSchema ==
    (pc = "done" /\ df # Null) =>
        \A i \in 1..Len(df.rows) :
            LET row == df.rows[i] IN
            /\ SchemaFields \cup {"type"} \subseteq DOMAIN row
            /\ row["type"] \in {Str(POST), Str(COMMENT)}
            /\ row["type"] = Str(COMMENT) =>
                  row["title"] = Null /\ row["num_comments"] = Null
            /\ row["type"] = Str(POST) => row["parent_id"] = Null

\* the block the claim gives the i-th file: the post only if there is one
ClaimedRowsOf(i) ==
    IF Fails(i) THEN <<>>
    ELSE LET o == Outcome(i) IN
         (IF DOMAIN o.post # {} THEN <<Named(o.post, i)>> ELSE <<>>)
            \o [k \in 1..Len(o.comments) |-> Named(o.comments[k], i)]

RECURSIVE ClaimedRowsUpTo(_)
ClaimedRowsUpTo(n) ==
    IF n = 0 THEN <<>> ELSE ClaimedRowsUpTo(n - 1) \o ClaimedRowsOf(n)

(* C7: the rows of each file that succeeds are one block of the table, the *)
(* blocks in the order of the files; a block is the post record only if    *)
(* the document has a post, then the document's comment records in the     *)
(* order returned (a document without post gives its comment records       *)
(* only).                                                                  *)
C7_TableOrdering ==
    pc = "done" => all_records = ClaimedRowsUpTo(Len(json_files))

(* C9: every row of the table carries as source_file the name of the file  *)
(* whose iteration produced it, and the records the normalizer returns     *)
(* carry no source_file until the loop stamps them.                        *)
C9_Provenance ==
    /\ Len(origin) = Len(all_records)
    /\ \A k \in 1..Len(all_records) :
          /\ origin[k] \in 1..Len(json_files)
          /\ "source_file" \in DOMAIN all_records[k]
          /\ all_records[k]["source_file"] = Str(json_files[origin[k]].name)
    /\ pc = "tag" =>
          /\ "source_file" \notin DOMAIN post
          /\ \A c \in 1..Len(comments) : "source_file" \notin DOMAIN comments[c]

\* rows of two files are in the table, a post and comments among them
C9_Witness ==
    /\ pc = "done"
    /\ \E j, k \in 1..Len(all_records) :
          /\ origin[j] # origin[k]
          /\ "type" \in DOMAIN all_records[j]
          /\ all_records[j]["type"] = Str(POST)
          /\ "type" \in DOMAIN all_records[k]
          /\ all_records[k]["type"] = Str(COMMENT)

====
